---- MODULE Spec2Model ----
(***************************************************************************)
(* Knowledge-base blog backend: the post collection (BlogService), the     *)
(* blob store under app/uploads (FileService) and the HTTP handlers of     *)
(* blog_routes.py that combine the two.                                    *)
(*                                                                         *)
(* A stored post is a record holding exactly the keys the code has written *)
(* to the document so far: a key the code never wrote (published_at,       *)
(* thumbnail_url) is absent from the record, as it is from the document.   *)
(* The opaque text fields (title, content, excerpt, author, tags) take     *)
(* part in no decision of the code and are not carried.                    *)
(*                                                                         *)
(* Three specifications share the definitions of the service:                *)
(*   Spec         the HTTP handlers, each a sequence of steps separated by *)
(*                the awaits of the handler, run by concurrent requests;   *)
(*   SpecService  the mutating methods of BlogService called directly,     *)
(*                each one store command;                                  *)
(*   SpecQuery    the post lifecycle and get_published_posts.              *)
(***************************************************************************)
EXTENDS Integers, Sequences, FiniteSets, TLC

VARIABLES
    now,        \* the clock read by datetime.now(timezone.utc)
    posts,      \* the blog_posts collection: ObjectId -> document
    nextId,     \* the next ObjectId insert_one assigns
    blobs,      \* the files under app/uploads, each by its relative path
    nextUuid,   \* the next value uuid.uuid4() returns
    reqs,       \* the in-flight HTTP requests: slot -> handler position
    calls,      \* how many requests or service calls have been started
    incCalls,   \* per post: completed increment_view_count calls on it
    last        \* the last finished request (Spec) or service call
                \* (SpecService, SpecQuery), with its response

vars == <<now, posts, nextId, blobs, nextUuid, reqs, calls, incCalls, last>>

-----------------------------------------------------------------------------
(* Bounds of the model *)

MaxTime == 1
MaxPosts == 2
MaxCalls == 3
MaxSvcCalls == 5
MaxSvcPosts == 1
MaxReqs == 2
MaxUploads == 2

\* An id string ObjectId() rejects with InvalidId.
BadId == 0
\* The ids a client may send: every ObjectId the store can assign, and one
\* malformed id.
PostIds == 0..MaxPosts
\* The ids the callers of SpecService pass.
SvcIds == 0..MaxSvcPosts
ValidObjectId(id) == id # BadId

\* Optional[...] = None of the pydantic models.
None == -1

-----------------------------------------------------------------------------
(* Documents and the store commands of the collection *)

EmptyDict == [k \in {} |-> 0]

\* {**doc, **upd}: the merge $set performs on a document.
SetFields(doc, upd) ==
    [k \in DOMAIN doc \cup DOMAIN upd |->
        IF k \in DOMAIN upd THEN upd[k] ELSE doc[k]]

\* update_one({"_id": id}, {"$set": upd}): no document matched, no effect.
update_one_set(store, id, upd) ==
    IF id \in DOMAIN store
    THEN [store EXCEPT ![id] = SetFields(@, upd)]
    ELSE store

\* A variant of IncViewCount that writes the count ($set) instead of adding.
ViewCountSetToOne(doc) == [doc EXCEPT !.view_count = 1]

\* {"$inc": {"view_count": 1}} on one document.
IncViewCount(doc) == [doc EXCEPT !.view_count = @ + 1]

update_one_inc(store, id) ==
    IF id \in DOMAIN store
    THEN [store EXCEPT ![id] = IncViewCount(@)]
    ELSE store

\* {"$push": {"attachments": a}} on one document.
update_one_push(store, id, a) ==
    IF id \in DOMAIN store
    THEN [store EXCEPT ![id].attachments = Append(@, a)]
    ELSE store

\* A variant of Pull that removes the first matching element only.
RECURSIVE PullFirst(_, _)
PullFirst(atts, filename) ==
    IF atts = << >> THEN << >>
    ELSE IF Head(atts).filename = filename THEN Tail(atts)
    ELSE <<Head(atts)>> \o PullFirst(Tail(atts), filename)

\* {"$pull": {"attachments": {"filename": filename}}}: the array without the
\* elements whose filename matches, the others in place.
RECURSIVE Pull(_, _)
Pull(atts, filename) ==
    IF atts = << >> THEN << >>
    ELSE IF Head(atts).filename = filename THEN Pull(Tail(atts), filename)
    ELSE <<Head(atts)>> \o Pull(Tail(atts), filename)

update_one_pull(store, id, filename) ==
    IF id \in DOMAIN store
    THEN [store EXCEPT ![id].attachments = Pull(@, filename)]
    ELSE store

\* delete_one({"_id": id}).
delete_one(store, id) == [i \in DOMAIN store \ {id} |-> store[i]]

\* BlogPost(**doc): the pydantic model fills the keys the document lacks
\* with their defaults.
BlogPost(doc) ==
    [status |-> doc.status,
     view_count |-> doc.view_count,
     attachments |-> doc.attachments,
     created_at |-> doc.created_at,
     updated_at |-> doc.updated_at,
     published_at |-> IF "published_at" \in DOMAIN doc
                      THEN doc.published_at ELSE None,
     thumbnail_url |-> IF "thumbnail_url" \in DOMAIN doc
                       THEN doc.thumbnail_url ELSE None]

-----------------------------------------------------------------------------
(* BlogService *)

\* The post_dict create_post inserts: the dump of BlogPostCreate (which has
\* no published_at and no thumbnail_url field) plus the generated metadata.
NewPostDict(status, t) ==
    [status |-> status,
     created_at |-> t,
     updated_at |-> t,
     view_count |-> 0,
     attachments |-> << >>]

\* The None of Optional[BlogPost].
NoPost == EmptyDict

\* get_post_by_id: None for a malformed id and for an id without document.
get_post_by_id(store, id) ==
    IF ValidObjectId(id) /\ id \in DOMAIN store
    THEN BlogPost(store[id])
    ELSE NoPost

\* The update_dict update_post builds: the fields of the patch that are not
\* None, updated_at, and published_at when the patch publishes without
\* carrying one.
UpdateDict(patch, t) ==
    LET d == SetFields(patch, [updated_at |-> t])
    IN  IF "status" \in DOMAIN d /\ d.status = "published"
           /\ "published_at" \notin DOMAIN d
        THEN SetFields(d, [published_at |-> t])
        ELSE d

\* The patches of the model: BlogPostUpdate dumped, the None fields dropped.
\* Only status and published_at take part in a decision of the code.
PatchTimes == {0}
Patches ==
    {EmptyDict}
    \cup {[status |-> s] : s \in {"draft", "published"}}
    \cup {[published_at |-> t] : t \in PatchTimes}
    \cup {[status |-> s, published_at |-> t] :
            s \in {"draft", "published"}, t \in PatchTimes}

\* The store after create_post(status) at time t.
Svc_create_post(store, id, status, t) ==
    store @@ (id :> NewPostDict(status, t))

\* The store after update_post(id, patch) at time t; a malformed id raises
\* InvalidId before the store is reached.
Svc_update_post(store, id, patch, t) ==
    IF ValidObjectId(id)
    THEN update_one_set(store, id, UpdateDict(patch, t))
    ELSE store

Svc_delete_post(store, id) ==
    IF ValidObjectId(id) THEN delete_one(store, id) ELSE store

\* delete_post's return value: result.deleted_count > 0.
Ret_delete_post(store, id) == ValidObjectId(id) /\ id \in DOMAIN store

Svc_increment_view_count(store, id) ==
    IF ValidObjectId(id) THEN update_one_inc(store, id) ELSE store

Svc_add_attachment(store, id, a) ==
    IF ValidObjectId(id) THEN update_one_push(store, id, a) ELSE store

Svc_remove_attachment(store, id, filename) ==
    IF ValidObjectId(id) THEN update_one_pull(store, id, filename) ELSE store

Svc_set_thumbnail(store, id, url) ==
    IF ValidObjectId(id)
    THEN update_one_set(store, id, [thumbnail_url |-> url])
    ELSE store

\* add_attachment, remove_attachment and set_thumbnail return True unless
\* ObjectId(post_id) raised InvalidId; the result of update_one is not read.
Ret_mutation(store, id) == ValidObjectId(id)

-----------------------------------------------------------------------------
(* get_published_posts: find({"status": "published"},                      *)
(* sort=[("published_at", -1)]).skip(skip).limit(limit)                    *)

\* The sort key of a document: a document without published_at sorts as
\* null, below every timestamp (None is below every time of the model).
SortKey(doc) == IF "published_at" \in DOMAIN doc THEN doc.published_at ELSE None

\* The ids the filter {"status": "published"} matches.
Matching(store) == {i \in DOMAIN store : store[i].status = "published"}

\* The orders the sort may deliver: key descending, documents of equal key
\* in an order the store does not promise.
SortedOrders(store) ==
    LET S == Matching(store)
        n == Cardinality(S)
    IN  {o \in [1..n -> S] :
            /\ \A i, j \in 1..n : i # j => o[i] # o[j]
            /\ \A i, j \in 1..n :
                 i < j => SortKey(store[o[i]]) >= SortKey(store[o[j]])}

\* cursor.skip(k): the sequence without its first k elements.
CursorSkip(seq, k) == [i \in 1..(Len(seq) - k) |-> seq[i + k]]

\* The first m elements of seq, all of seq when it has fewer.
Take(seq, m) == [i \in 1..(IF m < Len(seq) THEN m ELSE Len(seq)) |-> seq[i]]

\* cursor.limit(n): at most n documents; a limit of 0 is no limit.
CursorLimit(seq, n) == IF n = 0 THEN seq ELSE Take(seq, n)

\* The posts get_published_posts returns when the sort delivers order o.
get_published_posts(store, o, skip, limit) ==
    LET ids == CursorLimit(CursorSkip(o, skip), limit)
    IN  [i \in 1..Len(ids) |->
            SetFields(BlogPost(store[ids[i]]), [id |-> ids[i]])]

\* skip: Query(0, ge=0); limit: Query(10, le=50), which sets no lower bound
\* (the limits below 0 it lets through are left out of the model).
MaxSkip == 2
MaxLimit == 2
Skips == 0..MaxSkip
Limits == 0..MaxLimit

-----------------------------------------------------------------------------
(* FileService *)

allowed_image_types == {"image/jpeg", "image/png", "image/gif", "image/webp"}

allowed_document_types ==
    {"application/pdf", "application/msword",
     "application/vnd.openxmlformats-officedocument.wordprocessingml.document",
     "application/vnd.ms-excel",
     "application/vnd.openxmlformats-officedocument.spreadsheetml.sheet",
     "text/plain", "text/csv"}

max_file_size == 50 * 1024 * 1024

\* UploadFile.size when the client declared none.
NoSize == None

\* mimetypes.guess_type(filename)[0], by the extension of the filename.
guess_type(ext) ==
    CASE ext = ".png" -> "image/png"
      [] ext = ".pdf" -> "application/pdf"
      [] ext = ".zip" -> "application/zip"
      [] OTHER -> ""

\* _get_file_info(file)["mime_type"]: the declared type, else the guess,
\* else application/octet-stream ("" stands for both None and "").
MimeType(file) ==
    IF file.content_type # "" THEN file.content_type
    ELSE IF guess_type(file.ext) # "" THEN guess_type(file.ext)
    ELSE "application/octet-stream"

\* The uploads of the model.
Files ==
    {[content_type |-> "image/png", ext |-> ".png", size |-> 1],
     [content_type |-> "", ext |-> ".pdf", size |-> NoSize],
     [content_type |-> "application/zip", ext |-> ".zip", size |-> 1],
     [content_type |-> "", ext |-> "", size |-> 0],
     [content_type |-> "image/png", ext |-> ".png",
      size |-> max_file_size + 1]}

\* The allow-list of a bucket: upload_thumbnail checks the image types,
\* upload_attachment the image and the document types.
AllowedTypes(subdirectory) ==
    IF subdirectory = "thumbnails" THEN allowed_image_types
    ELSE allowed_image_types \cup allowed_document_types

\* A variant of TypeAccepted without the allow-list.
TypeAcceptedAlways(file, subdirectory) == TRUE

\* The media type check of upload_thumbnail / upload_attachment passes.
TypeAccepted(file, subdirectory) == MimeType(file) \in AllowedTypes(subdirectory)

\* save_file: if file.size and file.size > self.max_file_size
TooLarge(file) ==
    file.size # NoSize /\ file.size # 0 /\ file.size > max_file_size

\* What upload_thumbnail / upload_attachment answer before the first await of
\* save_file: 400, 413, or 0 when the file goes on to be written.
Validate(file, subdirectory) ==
    IF ~TypeAccepted(file, subdirectory) THEN 400
    ELSE IF TooLarge(file) THEN 413
    ELSE 0

\* _generate_filename: str(uuid.uuid4()) + ext, the n-th uuid drawn.
generate_filename(n, ext) == "u" \o ToString(n) \o ext

\* A path as the sequence of its characters; a file name is kept as one
\* element (no operation of the code looks inside one).
DirChars(subdirectory) ==
    IF subdirectory = "thumbnails"
    THEN <<"t", "h", "u", "m", "b", "n", "a", "i", "l", "s">>
    ELSE <<"a", "t", "t", "a", "c", "h", "m", "e", "n", "t", "s">>

\* os.path.join(subdirectory, filename), relative to upload_dir.
JoinPath(subdirectory, filename) ==
    DirChars(subdirectory) \o <<"/">> \o <<filename>>

\* The url save_file returns: /uploads/<subdirectory>/<filename>.
FileUrl(subdirectory, filename) ==
    <<"/", "u", "p", "l", "o", "a", "d", "s", "/">>
        \o JoinPath(subdirectory, filename)

\* str.lstrip(chars): drops leading characters while they are in chars.
RECURSIVE lstrip(_, _)
lstrip(path, chars) ==
    IF path # << >> /\ Head(path) \in chars
    THEN lstrip(Tail(path), chars)
    ELSE path

\* The characters of the argument "/uploads/" of lstrip in delete_file.
UploadsChars == {"/", "u", "p", "l", "o", "a", "d", "s"}

\* A variant of DeletePath that drops the prefix /uploads/ where the path
\* has it, as get_file_path does, and leaves every other path as it is.
DeletePathPrefix(file_path) ==
    IF Len(file_path) >= 9
       /\ [i \in 1..9 |-> file_path[i]]
             = <<"/", "u", "p", "l", "o", "a", "d", "s", "/">>
    THEN [i \in 1..(Len(file_path) - 9) |-> file_path[i + 9]]
    ELSE file_path

\* The path delete_file looks up, relative to upload_dir.
DeletePath(file_path) == lstrip(file_path, UploadsChars)

\* delete_file(file_path): removes the file if os.path.exists finds it.
delete_file(files, file_path) ==
    IF DeletePath(file_path) \in files
    THEN files \ {DeletePath(file_path)}
    ELSE files

\* delete_file's return value: True when os.path.exists found the file.
Ret_delete_file(files, file_path) == DeletePath(file_path) \in files

\* The file name of a stored path.
Basename(path) == path[Len(path)]

\* The file names a client may name in DELETE .../attachments/{filename}:
\* the name of any stored file, and one no file has.
Filenames(files) == {Basename(b) : b \in files} \cup {"missing.pdf"}

-----------------------------------------------------------------------------
(* Initial state: an empty collection, empty upload directories, no        *)
(* request in flight.                                                      *)

Idle == [kind |-> "idle", pc |-> "done"]

Init ==
    /\ now = 0
    /\ posts = EmptyDict
    /\ nextId = 1
    /\ blobs = {}
    /\ nextUuid = 1
    /\ reqs = [r \in 1..MaxReqs |-> Idle]
    /\ calls = 0
    /\ incCalls = EmptyDict
    /\ last = Idle

\* Time passes between two reads of the clock.
Tick ==
    /\ now < MaxTime
    /\ now' = now + 1
    /\ UNCHANGED <<posts, nextId, blobs, nextUuid, reqs, calls, incCalls, last>>

-----------------------------------------------------------------------------
(* SpecService: the mutating methods of BlogService, called directly.      *)
(* Each is one command of the store, so the calls of concurrent callers    *)
(* take effect one after the other, in any order.                          *)

\* The attachment dicts a caller may pass to add_attachment.
AttachmentDicts ==
    {[filename |-> f, url |-> FileUrl("attachments", f)] :
        f \in {"x.png", "y.png"}}

\* The urls a caller may pass to set_thumbnail.
ThumbnailUrls == {FileUrl("thumbnails", "t.png")}

\* How many attachment records of post id carry the file name.
Occurrences(store, id, filename) ==
    IF id \in DOMAIN store
    THEN Cardinality({i \in 1..Len(store[id].attachments) :
                        store[id].attachments[i].filename = filename})
    ELSE 0

SvcFrame == UNCHANGED <<now, nextId, blobs, nextUuid, reqs>>

\* create_post(post_data), while the collection has assigned fewer than
\* maxPosts ids.
DoCreatePost(maxPosts) ==
    /\ calls < MaxSvcCalls
    /\ nextId <= maxPosts
    /\ \E status \in {"draft", "published"} :
        /\ posts' = Svc_create_post(posts, nextId, status, now)
        /\ last' = [kind |-> "create_post", id |-> nextId, status |-> status]
    /\ incCalls' = incCalls @@ (nextId :> 0)
    /\ nextId' = nextId + 1
    /\ calls' = calls + 1
    /\ UNCHANGED <<now, blobs, nextUuid, reqs>>

\* update_post(post_id, update_data), post_id among ids.
DoUpdatePost(ids) ==
    /\ calls < MaxSvcCalls
    /\ \E id \in ids, patch \in Patches :
        /\ posts' = Svc_update_post(posts, id, patch, now)
        /\ last' = [kind |-> "update_post", id |-> id, patch |-> patch]
    /\ calls' = calls + 1
    /\ UNCHANGED incCalls
    /\ SvcFrame

\* delete_post(post_id), post_id among ids.
DoDeletePost(ids) ==
    /\ calls < MaxSvcCalls
    /\ \E id \in ids :
        /\ posts' = Svc_delete_post(posts, id)
        /\ incCalls' = [i \in DOMAIN posts' |-> incCalls[i]]
        /\ last' = [kind |-> "delete_post", id |-> id]
    /\ calls' = calls + 1
    /\ SvcFrame

Call_create_post == DoCreatePost(MaxSvcPosts)

Call_update_post == DoUpdatePost(SvcIds)

Call_delete_post == DoDeletePost(SvcIds)

Call_increment_view_count ==
    /\ calls < MaxSvcCalls
    /\ \E id \in SvcIds :
        /\ posts' = Svc_increment_view_count(posts, id)
        /\ incCalls' = IF id \in DOMAIN posts
                       THEN [incCalls EXCEPT ![id] = @ + 1] ELSE incCalls
        /\ last' = [kind |-> "increment_view_count", id |-> id]
    /\ calls' = calls + 1
    /\ SvcFrame

Call_add_attachment ==
    /\ calls < MaxSvcCalls
    /\ \E id \in SvcIds, a \in AttachmentDicts :
        /\ posts' = Svc_add_attachment(posts, id, a)
        /\ last' = [kind |-> "add_attachment", id |-> id,
                    filename |-> a.filename]
    /\ calls' = calls + 1
    /\ UNCHANGED incCalls
    /\ SvcFrame

Call_remove_attachment ==
    /\ calls < MaxSvcCalls
    /\ \E id \in SvcIds, a \in AttachmentDicts :
        /\ posts' = Svc_remove_attachment(posts, id, a.filename)
        /\ last' = [kind |-> "remove_attachment", id |-> id,
                    filename |-> a.filename,
                    removed |-> Occurrences(posts, id, a.filename)]
    /\ calls' = calls + 1
    /\ UNCHANGED incCalls
    /\ SvcFrame

Call_set_thumbnail ==
    /\ calls < MaxSvcCalls
    /\ \E id \in SvcIds, url \in ThumbnailUrls :
        /\ posts' = Svc_set_thumbnail(posts, id, url)
        /\ last' = [kind |-> "set_thumbnail", id |-> id]
    /\ calls' = calls + 1
    /\ UNCHANGED incCalls
    /\ SvcFrame

NextService ==
    \/ Tick
    \/ Call_create_post
    \/ Call_update_post
    \/ Call_delete_post
    \/ Call_increment_view_count
    \/ Call_add_attachment
    \/ Call_remove_attachment
    \/ Call_set_thumbnail

SpecService == Init /\ [][NextService]_vars

-----------------------------------------------------------------------------
(* SpecQuery: the public listing over the collections the post lifecycle   *)
(* builds.                                                                 *)

Query_create_post == DoCreatePost(MaxPosts)

Query_update_post == DoUpdatePost(PostIds)

Query_delete_post == DoDeletePost(PostIds)

Query_get_published_posts ==
    /\ calls < MaxSvcCalls
    /\ \E skip \in Skips, limit \in Limits, o \in SortedOrders(posts) :
        last' = [kind |-> "get_published_posts", skip |-> skip,
                 limit |-> limit,
                 ret |-> get_published_posts(posts, o, skip, limit)]
    /\ calls' = calls + 1
    /\ UNCHANGED <<posts, incCalls>>
    /\ SvcFrame

NextQuery ==
    \/ Tick
    \/ Query_create_post
    \/ Query_update_post
    \/ Query_delete_post
    \/ Query_get_published_posts

SpecQuery == Init /\ [][NextQuery]_vars

-----------------------------------------------------------------------------------------------------------------------------------------------------
(* Spec: the handlers of blog_routes.py.  A handler runs without           *)
(* interruption from one await to the next; requests interleave at the     *)
(* awaits.  The first action of a handler takes the request and runs it to *)
(* the completion of its first await.  A request that answers leaves its   *)
(* slot, and its record, with the response, becomes last.                  *)

Slots == 1..MaxReqs

\* The slot a new request takes: the lowest one that holds no request.
Accepts(r) ==
    /\ calls < MaxCalls
    /\ reqs[r] = Idle
    /\ \A q \in Slots : q < r => reqs[q] # Idle

\* Request r goes on as rec, or answers when rec.pc is "done".
Continue(r, rec) ==
    /\ reqs' = [reqs EXCEPT ![r] = IF rec.pc = "done" THEN Idle ELSE rec]
    /\ last' = IF rec.pc = "done" THEN rec ELSE last

\* A variant of CountsView without the status check.
CountsViewAlways(post) == TRUE

\* get_post: if post.status == "published"
CountsView(post) == post.status = "published"

\* GET /posts/{post_id}, to the return of get_post_by_id: 404, or the status
\* check that decides whether increment_view_count is called.
get_post_read(r) ==
    /\ Accepts(r)
    /\ \E id \in PostIds :
        LET post == get_post_by_id(posts, id)
        IN  Continue(r,
                IF post = NoPost
                THEN [kind |-> "get_post", pc |-> "done", id |-> id,
                      status |-> "", counted |-> FALSE, resp |-> 404]
                ELSE IF CountsView(post)
                THEN [kind |-> "get_post", pc |-> "inc", id |-> id,
                      status |-> post.status, counted |-> FALSE, resp |-> 0]
                ELSE [kind |-> "get_post", pc |-> "done", id |-> id,
                      status |-> post.status, counted |-> FALSE,
                      resp |-> 200])
    /\ calls' = calls + 1
    /\ UNCHANGED <<now, posts, nextId, blobs, nextUuid, incCalls>>

\* GET /posts/{post_id}: await blog_service.increment_view_count(post_id)
get_post_inc(r) ==
    /\ reqs[r].kind = "get_post"
    /\ reqs[r].pc = "inc"
    /\ posts' = Svc_increment_view_count(posts, reqs[r].id)
    /\ incCalls' = IF reqs[r].id \in DOMAIN posts
                   THEN [incCalls EXCEPT ![reqs[r].id] = @ + 1]
                   ELSE incCalls
    /\ Continue(r, [reqs[r] EXCEPT !.pc = "done", !.counted = TRUE,
                                   !.resp = 200])
    /\ UNCHANGED <<now, nextId, blobs, nextUuid, calls>>

\* POST /admin/posts
create_post(r) ==
    /\ Accepts(r)
    /\ nextId <= MaxPosts
    /\ \E status \in {"draft", "published"} :
        posts' = Svc_create_post(posts, nextId, status, now)
    /\ incCalls' = incCalls @@ (nextId :> 0)
    /\ Continue(r, [kind |-> "create_post", pc |-> "done", id |-> nextId,
                    resp |-> 200])
    /\ nextId' = nextId + 1
    /\ calls' = calls + 1
    /\ UNCHANGED <<now, blobs, nextUuid>>

\* PUT /admin/posts/{post_id}, to the return of update_one; InvalidId makes
\* update_post return None before the store is reached.
update_post_set(r) ==
    /\ Accepts(r)
    /\ \E id \in PostIds, patch \in Patches :
        /\ posts' = Svc_update_post(posts, id, patch, now)
        /\ Continue(r,
                IF ValidObjectId(id)
                THEN [kind |-> "update_post", pc |-> "read", id |-> id,
                      resp |-> 0]
                ELSE [kind |-> "update_post", pc |-> "done", id |-> id,
                      resp |-> 404])
    /\ calls' = calls + 1
    /\ UNCHANGED <<now, nextId, blobs, nextUuid, incCalls>>

\* PUT /admin/posts/{post_id}: return await self.get_post_by_id(post_id)
update_post_read(r) ==
    /\ reqs[r].kind = "update_post"
    /\ reqs[r].pc = "read"
    /\ Continue(r, [reqs[r] EXCEPT
            !.pc = "done",
            !.resp = IF get_post_by_id(posts, reqs[r].id) = NoPost
                     THEN 404 ELSE 200])
    /\ UNCHANGED <<now, posts, nextId, blobs, nextUuid, calls, incCalls>>

\* DELETE /admin/posts/{post_id}
delete_post(r) ==
    /\ Accepts(r)
    /\ \E id \in PostIds :
        /\ posts' = Svc_delete_post(posts, id)
        /\ Continue(r, [kind |-> "delete_post", pc |-> "done", id |-> id,
                        resp |-> IF Ret_delete_post(posts, id)
                                 THEN 200 ELSE 404])
    /\ incCalls' = [i \in DOMAIN posts' |-> incCalls[i]]
    /\ calls' = calls + 1
    /\ UNCHANGED <<now, nextId, blobs, nextUuid>>

-----------------------------------------------------------------------------
(* The upload handlers.  existed, wrote and modified record, for each      *)
(* request, whether the post was in the store when the handler looked it   *)
(* up, whether the request wrote a file, and whether it changed a post.    *)

\* A variant of PostAbsent without the existence check.
PostAbsentNever(post) == FALSE

\* upload_thumbnail / upload_attachment: if not post
PostAbsent(post) == post = NoPost

UploadReq(kind, id, file, pc, resp, existed) ==
    [kind |-> kind, pc |-> pc, id |-> id, file |-> file, resp |-> resp,
     filename |-> "", existed |-> existed, wrote |-> FALSE,
     modified |-> FALSE]

\* POST /admin/posts/{post_id}/thumbnail and .../attachments, to the first
\* await of save_file: the lookup of the post, 404 when it is absent, then
\* the checks of the file service, which run before anything is awaited.
upload_check(r, kind, subdirectory) ==
    /\ Accepts(r)
    /\ \E id \in PostIds, file \in Files :
        LET post == get_post_by_id(posts, id)
            existed == id \in DOMAIN posts
            v == Validate(file, subdirectory)
        IN  Continue(r,
                IF PostAbsent(post)
                THEN UploadReq(kind, id, file, "done", 404, existed)
                ELSE IF v # 0
                THEN UploadReq(kind, id, file, "done", v, existed)
                ELSE UploadReq(kind, id, file, "write", 0, existed))
    /\ calls' = calls + 1
    /\ UNCHANGED <<now, posts, nextId, blobs, nextUuid, incCalls>>

upload_thumbnail_check(r) == upload_check(r, "upload_thumbnail", "thumbnails")

upload_attachment_check(r) ==
    upload_check(r, "upload_attachment", "attachments")

\* POST /admin/upload/thumbnail and /admin/upload/attachment: the checks of
\* the file service, with no post to look up.
standalone_check(r, kind, subdirectory) ==
    /\ Accepts(r)
    /\ \E file \in Files :
        LET v == Validate(file, subdirectory)
        IN  Continue(r,
                IF v # 0
                THEN UploadReq(kind, BadId, file, "done", v, FALSE)
                ELSE UploadReq(kind, BadId, file, "write", 0, FALSE))
    /\ calls' = calls + 1
    /\ UNCHANGED <<now, posts, nextId, blobs, nextUuid, incCalls>>

upload_thumbnail_standalone_check(r) ==
    standalone_check(r, "upload_thumbnail_standalone", "thumbnails")

upload_attachment_standalone_check(r) ==
    standalone_check(r, "upload_attachment_standalone", "attachments")

\* The bucket a handler uploads to.
Bucket(kind) ==
    IF kind \in {"upload_thumbnail", "upload_thumbnail_standalone"}
    THEN "thumbnails" ELSE "attachments"

PostBound(kind) == kind \in {"upload_thumbnail", "upload_attachment"}

UploadKinds ==
    {"upload_thumbnail", "upload_attachment",
     "upload_thumbnail_standalone", "upload_attachment_standalone"}

\* save_file from its first await: the file is written under a fresh name.
\* A standalone upload answers with the descriptor; a post-bound upload goes
\* on to record the file on the post.
save_file(r) ==
    /\ reqs[r].kind \in UploadKinds
    /\ reqs[r].pc = "write"
    /\ nextUuid <= MaxUploads
    /\ LET name == generate_filename(nextUuid, reqs[r].file.ext)
       IN  /\ blobs' = blobs \cup {JoinPath(Bucket(reqs[r].kind), name)}
           /\ Continue(r, [reqs[r] EXCEPT
                 !.filename = name,
                 !.wrote = TRUE,
                 !.pc = IF PostBound(reqs[r].kind) THEN "link" ELSE "done",
                 !.resp = IF PostBound(reqs[r].kind) THEN 0 ELSE 200])
    /\ nextUuid' = nextUuid + 1
    /\ UNCHANGED <<now, posts, nextId, calls, incCalls>>

\* The file_info dict save_file returns, as far as the post keeps it apart
\* from other attachments: the generated name and the url.
FileInfo(subdirectory, name) ==
    [filename |-> name, url |-> FileUrl(subdirectory, name)]

\* upload_thumbnail: await blog_service.set_thumbnail(post_id, url)
upload_thumbnail_link(r) ==
    /\ reqs[r].kind = "upload_thumbnail"
    /\ reqs[r].pc = "link"
    /\ posts' = Svc_set_thumbnail(posts, reqs[r].id,
                    FileUrl("thumbnails", reqs[r].filename))
    /\ Continue(r, [reqs[r] EXCEPT
          !.pc = "done",
          !.modified = (posts' # posts),
          !.resp = IF Ret_mutation(posts, reqs[r].id) THEN 200 ELSE 500])
    /\ UNCHANGED <<now, nextId, blobs, nextUuid, calls, incCalls>>

\* upload_attachment: await blog_service.add_attachment(post_id, file_info)
upload_attachment_link(r) ==
    /\ reqs[r].kind = "upload_attachment"
    /\ reqs[r].pc = "link"
    /\ posts' = Svc_add_attachment(posts, reqs[r].id,
                    FileInfo("attachments", reqs[r].filename))
    /\ Continue(r, [reqs[r] EXCEPT
          !.pc = "done",
          !.modified = (posts' # posts),
          !.resp = IF Ret_mutation(posts, reqs[r].id) THEN 200 ELSE 500])
    /\ UNCHANGED <<now, nextId, blobs, nextUuid, calls, incCalls>>

\* DELETE /admin/posts/{post_id}/attachments/{filename}, to the return of
\* blog_service.remove_attachment: 404 when it returned False.  removed
\* records how many attachment records the call took off the post, deleted
\* what delete_file returned to the handler.
remove_attachment_pull(r) ==
    /\ Accepts(r)
    /\ \E id \in PostIds, filename \in Filenames(blobs) :
        /\ posts' = Svc_remove_attachment(posts, id, filename)
        /\ Continue(r,
                [kind |-> "remove_attachment",
                 pc |-> IF Ret_mutation(posts, id) THEN "delete" ELSE "done",
                 id |-> id, filename |-> filename,
                 removed |-> Occurrences(posts, id, filename),
                 deleted |-> FALSE,
                 resp |-> IF Ret_mutation(posts, id) THEN 0 ELSE 404])
    /\ calls' = calls + 1
    /\ UNCHANGED <<now, nextId, blobs, nextUuid, incCalls>>

\* DELETE .../attachments/{filename}:
\* await file_service.delete_file(f"attachments/{filename}")
remove_attachment_delete(r) ==
    /\ reqs[r].kind = "remove_attachment"
    /\ reqs[r].pc = "delete"
    /\ blobs' = delete_file(blobs, JoinPath("attachments", reqs[r].filename))
    /\ Continue(r, [reqs[r] EXCEPT
          !.pc = "done",
          !.deleted = Ret_delete_file(blobs,
                          JoinPath("attachments", reqs[r].filename)),
          !.resp = 200])
    /\ UNCHANGED <<now, posts, nextId, nextUuid, calls, incCalls>>

Next ==
    \/ Tick
    \/ \E r \in Slots :
        \/ get_post_read(r)
        \/ get_post_inc(r)
        \/ create_post(r)
        \/ update_post_set(r)
        \/ update_post_read(r)
        \/ delete_post(r)
        \/ upload_thumbnail_check(r)
        \/ upload_attachment_check(r)
        \/ upload_thumbnail_standalone_check(r)
        \/ upload_attachment_standalone_check(r)
        \/ save_file(r)
        \/ upload_thumbnail_link(r)
        \/ upload_attachment_link(r)
        \/ remove_attachment_pull(r)
        \/ remove_attachment_delete(r)

Spec == Init /\ [][Next]_vars

-----------------------------------------------------------------------------
(* Properties of BlogService, checked under SpecService *)

\* A step of SpecService that is the service call recorded in last'.
IsCall(kind) == calls' = calls + 1 /\ last'.kind = kind

\* C2: once published_at is stored, an update_post whose patch carries no
\* published_at (publish, unpublish, publish again) leaves it as it is.
C2_PublishedAtKept ==
    [][\A id \in DOMAIN posts :
          (/\ IsCall("update_post")
           /\ last'.id = id
           /\ "published_at" \notin DOMAIN last'.patch
           /\ "published_at" \in DOMAIN posts[id])
          => posts'[id].published_at = posts[id].published_at]_vars

\* C3: no stored post has status published without a published_at.
C3_PublishedHasTimestamp ==
    \A id \in DOMAIN posts :
        posts[id].status = "published" => BlogPost(posts[id]).published_at # None

\* C4: the view_count of a post is the number of increment_view_count calls
\* made on it, whatever other calls on the post came in between.
C4_ViewCountCountsCalls ==
    \A id \in DOMAIN posts : posts[id].view_count = incCalls[id]

\* C4, witness: a post incremented twice, with an attachment pushed and a
\* thumbnail or update applied in between.
C4_Witness ==
    \E id \in DOMAIN posts :
        /\ incCalls[id] >= 2
        /\ posts[id].attachments # << >>

MutatingCalls ==
    {"update_post", "add_attachment", "remove_attachment", "set_thumbnail",
     "increment_view_count"}

\* C5: every mutating call on an existing post sets its updated_at to the
\* time of the call and leaves its created_at alone.
C5_UpdatedAtRefreshed ==
    [][\A id \in DOMAIN posts :
          (\E k \in MutatingCalls : IsCall(k) /\ last'.id = id)
          => /\ posts'[id].updated_at = now
             /\ posts'[id].created_at = posts[id].created_at]_vars

-----------------------------------------------------------------------------
(* The public listing, checked under SpecQuery *)

\* The elements of seq at the positions from (excluded) to to (included),
\* as far as seq has them: the slice [from, to) of a 0-based numbering.
Slice(seq, from, to) ==
    LET hi == IF to < Len(seq) THEN to ELSE Len(seq)
    IN  [i \in 1..(hi - from) |-> seq[from + i]]

\* C10: get_published_posts(skip, limit) returns published posts only, in
\* non-increasing order of published_at, and exactly the slice
\* [skip, skip + limit) of that order.
C10_ListingIsSlice ==
    last.kind = "get_published_posts" =>
        /\ \A i \in 1..Len(last.ret) : last.ret[i].status = "published"
        /\ \A i, j \in 1..Len(last.ret) :
              i < j => last.ret[i].published_at >= last.ret[j].published_at
        /\ \E o \in SortedOrders(posts) :
              [i \in 1..Len(last.ret) |-> last.ret[i].id]
                 = Slice(o, last.skip, last.skip + last.limit)

-----------------------------------------------------------------------------
(* Properties of the handlers, checked under Spec *)

\* C1 as claimed: view_count never decreases and grows only while the stored
\* status of the post is published.
C1_OnlyWhilePublished ==
    [][\A id \in DOMAIN posts \cap DOMAIN posts' :
          /\ posts'[id].view_count >= posts[id].view_count
          /\ posts'[id].view_count > posts[id].view_count
                => posts[id].status = "published"]_vars

\* C1, amended: view_count never decreases and grows, by one, only in the
\* increment of a GET /posts/{id} request whose own read of the post found
\* status published.
C1_OnlyAfterReadingPublished ==
    [][\A id \in DOMAIN posts \cap DOMAIN posts' :
          /\ posts'[id].view_count >= posts[id].view_count
          /\ posts'[id].view_count > posts[id].view_count
                => /\ posts'[id].view_count = posts[id].view_count + 1
                   /\ \E r \in Slots :
                        /\ reqs[r].kind = "get_post"
                        /\ reqs[r].pc = "inc"
                        /\ reqs[r].id = id
                        /\ reqs[r].status = "published"
                        /\ reqs'[r] = Idle]_vars

\* C1, witness: a request read the post as published and has counted its
\* view on a post an update has meanwhile made a draft.
C1_Witness ==
    /\ last.kind = "get_post"
    /\ last.counted
    /\ last.status = "published"
    /\ last.id \in DOMAIN posts
    /\ posts[last.id].status = "draft"
    /\ posts[last.id].view_count >= 1

\* C7: the attachment-removal endpoint answers 404 whenever the removal
\* took no record off a post, and success only when it took at least one.
C7_NoEffectIs404 ==
    last.kind = "remove_attachment" =>
        /\ last.removed = 0 => last.resp = 404
        /\ last.resp = 200 => last.removed >= 1

\* The upload of request rec is one the claim C8 is about: its resolved
\* media type is outside the allow-list of its bucket, or its declared size
\* exceeds the maximum.
TypeOutsideAllowList(rec) ==
    MimeType(rec.file) \notin
        (IF rec.kind \in {"upload_thumbnail", "upload_thumbnail_standalone"}
         THEN allowed_image_types
         ELSE allowed_image_types \cup allowed_document_types)

DeclaredTooLarge(rec) ==
    rec.file.size # NoSize /\ rec.file.size > max_file_size

\* C8 for one request: rejected with 400 (media type) resp. 413 (size), or
\* with 404 when its post was absent, having written no file and changed no
\* post.
RejectedUntouched(rec) ==
    (rec.kind \in UploadKinds
        /\ (TypeOutsideAllowList(rec) \/ DeclaredTooLarge(rec)))
    => /\ rec.pc = "done"
       /\ ~rec.wrote
       /\ ~rec.modified
       /\ rec.resp = IF PostBound(rec.kind) /\ ~rec.existed THEN 404
                     ELSE IF TypeOutsideAllowList(rec) THEN 400
                     ELSE 413

\* C8: an upload of a media type outside the allow-list of its bucket, or of
\* a declared size over the maximum, is rejected before any byte is written.
C8_RejectedBeforeWrite ==
    /\ RejectedUntouched(last)
    /\ \A r \in Slots : RejectedUntouched(reqs[r])

\* C8, witness: an oversize image was refused with 413 on a post that
\* exists, while the blob store holds a file.
C8_Witness ==
    /\ PostBound(last.kind)
    /\ last.existed
    /\ DeclaredTooLarge(last)
    /\ last.resp = 413
    /\ blobs # {}

\* C9 for one request: a post-bound upload that found no post answers 404,
\* writes no file and changes no post.
AbsentPostRefused(rec) ==
    (PostBound(rec.kind) /\ ~rec.existed)
    => /\ rec.pc = "done"
       /\ rec.resp = 404
       /\ ~rec.wrote
       /\ ~rec.modified

\* C9: for the post-bound upload endpoints the existence check precedes the
\* upload.
C9_CheckPrecedesUpload ==
    /\ AbsentPostRefused(last)
    /\ \A r \in Slots : AbsentPostRefused(reqs[r])

\* C9, witness: an acceptable file sent to a well-formed id without post was
\* answered 404.
C9_Witness ==
    /\ PostBound(last.kind)
    /\ ~last.existed
    /\ ValidObjectId(last.id)
    /\ ~TypeOutsideAllowList(last)
    /\ ~DeclaredTooLarge(last)
    /\ last.resp = 404

-----------------------------------------------------------------------------
(* The blobs behind the attachment records, checked under Spec *)

\* C11: the delete_file call of the attachment-removal endpoint removes the
\* blob attachments/<filename> and returns true when that blob is stored,
\* and returns false and leaves the blob store as it is when it is not.
C11_RemovalDeletesBlob ==
    [][\A r \in Slots :
          (/\ reqs[r].kind = "remove_attachment"
           /\ reqs[r].pc = "delete"
           /\ reqs'[r] = Idle)
          => LET blob == JoinPath("attachments", reqs[r].filename)
             IN  /\ blobs' = blobs \ {blob}
                 /\ last'.deleted = (blob \in blobs)]_vars

====
